---- MODULE Spec2Model ----
(***************************************************************************)
(* Model of the parts-catalog ETL: the staging store (init_db and the      *)
(* three insert helpers of parts_pdf_etl.py), the text extractor, the      *)
(* part-number detector, run_pipeline, and search() of search_parts.py.    *)
(*                                                                         *)
(* Text is a sequence of one-character strings.  NULL is SQL NULL / None.  *)
(***************************************************************************)
EXTENDS Integers, Sequences, FiniteSets, TLC

\* ---------------------------------------------------------------------
\* Bounds of the model
\* ---------------------------------------------------------------------
\* number of text segments a detector input is built from
MaxSegs == 5
\* pages of one catalog file
MaxPages == 2
\* rows the store-level specification lets raw_lines / parts_candidates grow to
MaxRows == 2

NULL == "NULL"

\* ---------------------------------------------------------------------
\* Characters
\* ---------------------------------------------------------------------
UpperDigit == {"A", "B", "C", "D", "E", "1"}
Lower == {"a", "b", "c", "d", "e"}
NL == "\n"
SP == " "

\* \w of the re module: letters, digits, underscore
IsWord(c) == c \in UpperDigit \cup Lower \cup {"_"}
\* the character class [A-Z0-9-] of PART_PATTERN
InClass(c) == c \in UpperDigit \cup {"-"}
\* {4,} of PART_PATTERN
MinLen == 4

\* ---------------------------------------------------------------------
\* Sequence helpers
\* ---------------------------------------------------------------------
RECURSIVE Flatten(_)
Flatten(ss) == IF ss = <<>> THEN <<>> ELSE Head(ss) \o Flatten(Tail(ss))

\* s[i+1 .. j], the Python slice s[i:j]
Slice(s, i, j) == SubSeq(s, i + 1, j)

\* str.split("\n"): the pieces between newlines, empty pieces kept
RECURSIVE SplitNL(_, _)
SplitNL(s, cur) ==
    IF s = <<>> THEN <<cur>>
    ELSE IF Head(s) = NL THEN <<cur>> \o SplitNL(Tail(s), <<>>)
    ELSE SplitNL(Tail(s), Append(cur, Head(s)))

IsSpace(c) == c \in {SP, NL}

\* str.strip(): leading and trailing whitespace removed
RECURSIVE LStrip(_)
LStrip(s) == IF s # <<>> /\ IsSpace(Head(s)) THEN LStrip(Tail(s)) ELSE s

RECURSIVE RStrip(_)
RStrip(s) ==
    IF s # <<>> /\ IsSpace(s[Len(s)]) THEN RStrip(SubSeq(s, 1, Len(s) - 1)) ELSE s

Strip(s) == RStrip(LStrip(s))

\* ---------------------------------------------------------------------
\* PART_PATTERN = \b([A-Z0-9-]{4,})\b and detect_part_candidates
\* ---------------------------------------------------------------------
\* \b at offset k (between line[k] and line[k+1], 0 <= k <= Len)
WordBoundary(line, k) ==
    LET before == k >= 1 /\ IsWord(line[k])
        after == k < Len(line) /\ IsWord(line[k + 1])
    IN  before # after

\* greedy without backtracking: only the end of the whole run is tried
MatchEndsNoBacktrack(line, k) ==
    {e \in (k + MinLen)..Len(line) :
        /\ \A i \in (k + 1)..e : InClass(line[i])
        /\ e = Len(line) \/ ~InClass(line[e + 1])
        /\ WordBoundary(line, e)}

\* offsets e at which a match that starts at offset k can end: the greedy
\* {4,} takes the longest run of class characters and backtracks to the
\* last offset that is a word boundary
MatchEnds(line, k) ==
    {e \in (k + MinLen)..Len(line) :
        /\ \A i \in (k + 1)..e : InClass(line[i])
        /\ WordBoundary(line, e)}

MaxOf(S) == CHOOSE x \in S : \A y \in S : y <= x

\* the scan of re.findall: leftmost match from offset k, longest end, then
\* resume at the end of the match
RECURSIVE FindAllFrom(_, _)
FindAllFrom(line, k) ==
    IF k + MinLen > Len(line) THEN <<>>
    ELSE IF WordBoundary(line, k) /\ MatchEnds(line, k) # {}
         THEN LET e == MaxOf(MatchEnds(line, k))
              IN  <<Slice(line, k, e)>> \o FindAllFrom(line, e)
         ELSE FindAllFrom(line, k + 1)

FindAll(line) == FindAllFrom(line, 0)

Confidence == "0.8"

Candidate(docId, page, match, line) ==
    [doc_id |-> docId, page |-> page, part_number |-> match,
     description |-> line, category |-> NULL, confidence |-> Confidence,
     raw_text |-> line]

RECURSIVE CandidatesOfLine(_, _, _, _)
CandidatesOfLine(docId, page, line, matches) ==
    IF matches = <<>> THEN <<>>
    ELSE <<Candidate(docId, page, Head(matches), line)>>
         \o CandidatesOfLine(docId, page, line, Tail(matches))

RECURSIVE detect_part_candidates(_, _, _)
detect_part_candidates(docId, page, lines) ==
    IF lines = <<>> THEN <<>>
    ELSE CandidatesOfLine(docId, page, Head(lines), FindAll(Head(lines)))
         \o detect_part_candidates(docId, page, Tail(lines))

\* ---------------------------------------------------------------------
\* State
\* ---------------------------------------------------------------------
VARIABLES
    \* detector specification: the lines handed to detect_part_candidates
    \* and the list it returned
    dLines, dOut,
    \* the staging store: the three tables in rowid order, the FTS5 index
    \* raw_lines_fts (the rowids it holds), and sqlite3_last_insert_rowid()
    \* of the connection init_db returned
    source_documents, raw_lines, raw_lines_fts, parts_candidates,
    last_insert_rowid,
    \* what the last call of the store-level specification returned
    ret,
    \* history: for every (part_number, description) pair, the first tuple
    \* handed to insert_candidates with it
    firstInserted,
    \* run_pipeline: the files of SAVE_DIR after download_pdfs, the limit
    \* argument, the position in the function (pc), the loop index idx, the
    \* doc_id of the current document, the mapping extract_pdf_text returned
    \* for it (in insertion order), the number of its entries already
    \* written, and the exception that ended the run early
    files, limit, pc, idx, doc_id, extracted, written, abortCause

detectVars == <<dLines, dOut>>
NoCall == [called |-> FALSE, doc_id |-> 0, page |-> 0, candidates |-> <<>>]
DocIds == {1, 2}
PageNums == 1..MaxPages

storeVars ==
    <<source_documents, raw_lines, raw_lines_fts, parts_candidates,
      last_insert_rowid, firstInserted>>
pipeVars ==
    <<files, limit, pc, idx, doc_id, extracted, written, abortCause>>
vars == <<detectVars, storeVars, ret, pipeVars>>

\* ---------------------------------------------------------------------
\* init_db: the schema, freshly created
\* ---------------------------------------------------------------------
\* the database file is unlinked first, so every table starts empty; the
\* FTS5 table is an external-content table over raw_lines and the script
\* creates no trigger on raw_lines
init_db ==
    /\ source_documents = <<>>
    /\ raw_lines = <<>>
    /\ raw_lines_fts = {}
    /\ parts_candidates = <<>>
    /\ last_insert_rowid = 0
    /\ firstInserted = {}

\* INTEGER PRIMARY KEY without AUTOINCREMENT: largest rowid + 1; no row
\* is ever deleted, so that is the row count + 1
NextRowid(table) == Len(table) + 1

DocIdsOf(docs) == {docs[i].doc_id : i \in 1..Len(docs)}

\* ---------------------------------------------------------------------
\* upsert_source
\* ---------------------------------------------------------------------
\* INSERT ... ON CONFLICT(source_key) DO UPDATE, then
\* "cur.lastrowid or SELECT doc_id ...".  cur.lastrowid is the connection's
\* sqlite3_last_insert_rowid() after the statement; the DO UPDATE branch
\* inserts nothing and leaves it as the previous insert set it.
UpsertSource(docs, last, source_key, url, filename, brand, category_hint) ==
    LET hit == {i \in 1..Len(docs) : docs[i].source_key = source_key}
    IN  IF hit = {}
        THEN LET id == NextRowid(docs)
                 row == [doc_id |-> id, source_key |-> source_key, url |-> url,
                         filename |-> filename, brand |-> brand,
                         category_hint |-> category_hint]
             IN  [docs |-> Append(docs, row), last |-> id, result |-> id]
        ELSE LET i == CHOOSE j \in hit : TRUE
                 row == [docs[i] EXCEPT !.url = url, !.filename = filename,
                                        !.brand = brand,
                                        !.category_hint = category_hint]
             IN  [docs |-> [docs EXCEPT ![i] = row], last |-> last,
                  result |-> IF last # 0 THEN last ELSE docs[i].doc_id]

\* ---------------------------------------------------------------------
\* insert_raw_lines
\* ---------------------------------------------------------------------
\* executemany of a plain INSERT, one row per line, then commit; nothing
\* is written to raw_lines_fts
RECURSIVE InsertRawLines(_, _, _, _, _)
InsertRawLines(rows, last, docId, page, lines) ==
    IF lines = <<>> THEN [rows |-> rows, last |-> last]
    ELSE LET id == NextRowid(rows)
             row == [line_id |-> id, doc_id |-> docId, page |-> page,
                     text |-> Head(lines)]
         IN  InsertRawLines(Append(rows, row), id, docId, page, Tail(lines))

\* ---------------------------------------------------------------------
\* insert_candidates
\* ---------------------------------------------------------------------
SamePair(a, b) ==
    a.part_number = b.part_number /\ a.description = b.description

\* ON CONFLICT REPLACE instead of IGNORE: the later tuple takes the row
RECURSIVE InsertCandidatesReplace(_, _, _)
InsertCandidatesReplace(rows, last, candidates) ==
    IF candidates = <<>> THEN [rows |-> rows, last |-> last]
    ELSE LET c == Head(candidates)
             hit == {i \in 1..Len(rows) : SamePair(rows[i], c)}
         IN  IF hit # {}
             THEN LET i == CHOOSE j \in hit : TRUE
                      row == [part_id |-> rows[i].part_id] @@ c
                  IN  InsertCandidatesReplace([rows EXCEPT ![i] = row], last,
                                              Tail(candidates))
             ELSE LET id == NextRowid(rows)
                  IN  InsertCandidatesReplace(
                          Append(rows, [part_id |-> id] @@ c), id,
                          Tail(candidates))

\* the conflict looked up only among the rows stored before the batch
RECURSIVE InsertCandidatesStale(_, _, _, _)
InsertCandidatesStale(before, rows, last, candidates) ==
    IF candidates = <<>> THEN [rows |-> rows, last |-> last]
    ELSE LET c == Head(candidates)
         IN  IF \E i \in 1..Len(before) : SamePair(before[i], c)
             THEN InsertCandidatesStale(before, rows, last, Tail(candidates))
             ELSE LET id == NextRowid(rows)
                  IN  InsertCandidatesStale(
                          before, Append(rows, [part_id |-> id] @@ c), id,
                          Tail(candidates))

InsertCandidatesNoBatchDedup(rows, last, candidates) ==
    InsertCandidatesStale(rows, rows, last, candidates)

\* executemany of INSERT into a table with
\* UNIQUE(part_number, description) ON CONFLICT IGNORE: a tuple whose pair
\* is already stored (before the batch or earlier in it) is skipped, the
\* others get the next part_id
RECURSIVE InsertCandidates(_, _, _)
InsertCandidates(rows, last, candidates) ==
    IF candidates = <<>> THEN [rows |-> rows, last |-> last]
    ELSE LET c == Head(candidates)
         IN  IF \E i \in 1..Len(rows) : SamePair(rows[i], c)
             THEN InsertCandidates(rows, last, Tail(candidates))
             ELSE LET id == NextRowid(rows)
                  IN  InsertCandidates(Append(rows, [part_id |-> id] @@ c), id,
                                       Tail(candidates))

\* history of first insertions
RECURSIVE FirstInserted(_, _)
FirstInserted(seen, candidates) ==
    IF candidates = <<>> THEN seen
    ELSE LET c == Head(candidates)
         IN  FirstInserted(
                 IF \E f \in seen : SamePair(f, c) THEN seen ELSE seen \cup {c},
                 Tail(candidates))

\* ---------------------------------------------------------------------
\* extract_pdf_text
\* ---------------------------------------------------------------------
\* [ln for ln in text.split("\n") if ln.strip()]: the line kept untrimmed
RECURSIVE KeepNonEmptyUntrimmed(_)
KeepNonEmptyUntrimmed(pieces) ==
    IF pieces = <<>> THEN <<>>
    ELSE IF Strip(Head(pieces)) # <<>>
         THEN <<Head(pieces)>> \o KeepNonEmptyUntrimmed(Tail(pieces))
         ELSE KeepNonEmptyUntrimmed(Tail(pieces))

\* [ln.strip() for ln in text.split("\n") if ln.strip()]
RECURSIVE StripNonEmpty(_)
StripNonEmpty(pieces) ==
    IF pieces = <<>> THEN <<>>
    ELSE IF Strip(Head(pieces)) # <<>>
         THEN <<Strip(Head(pieces))>> \o StripNonEmpty(Tail(pieces))
         ELSE StripNonEmpty(Tail(pieces))

ExtractLines(text) == StripNonEmpty(SplitNL(text, <<>>))

\* the loop over pdf.pages: a page without text is skipped; an exception
\* of page.extract_text() leaves the loop and the with block and is caught
\* by the except around them, so the pages collected so far are returned
RECURSIVE ExtractPages(_, _)
ExtractPages(pages, page_num) ==
    IF page_num > Len(pages) THEN <<>>
    ELSE IF pages[page_num].kind = "raise" THEN <<>>
    ELSE IF pages[page_num].kind = "none"
         THEN ExtractPages(pages, page_num + 1)
         ELSE <<[page_num |-> page_num,
                 lines |-> ExtractLines(pages[page_num].text)]>>
              \o ExtractPages(pages, page_num + 1)

\* pdfplumber.open() raising is caught by the same except: no pages
extract_pdf_text(file) ==
    IF file.status = "corrupt" THEN <<>> ELSE ExtractPages(file.pages, 1)

\* ---------------------------------------------------------------------
\* run_pipeline: configuration and environment
\* ---------------------------------------------------------------------
\* the source list (two entries stand for the thirteen of the module)
PDF_URLS ==
    <<[source_key |-> "k1", url |-> "u1"], [source_key |-> "k2", url |-> "u2"]>>

FileName(source_key) == IF source_key = "k1" THEN "k1.pdf" ELSE "k2.pdf"

\* what page.extract_text() can do: return text, return None or "", raise
PageText1 ==
    <<SP, "A", "B", "C", "D", SP, "E", "1", "E", "1", SP, NL, SP, SP, NL,
      "E", "1", "E", "1", NL>>
PageTextBlank == <<SP, NL, SP>>
PageOutcomes ==
    {[kind |-> "text", text |-> PageText1],
     [kind |-> "text", text |-> PageTextBlank],
     [kind |-> "none", text |-> <<>>],
     [kind |-> "raise", text |-> <<>>]}

\* a file of SAVE_DIR: missing, one pdfplumber.open() fails on, or pages
FileStates ==
    {[status |-> "missing", pages |-> <<>>], [status |-> "corrupt", pages |-> <<>>]}
    \cup {[status |-> "ok", pages |-> ps] :
             ps \in UNION {[1..n -> PageOutcomes] : n \in 1..MaxPages}}

\* limit: None, or the integer argparse read
LimitValues ==
    {[given |-> FALSE, n |-> 0]}
    \cup {[given |-> TRUE, n |-> n] : n \in 0..Len(PDF_URLS)}

PipelineIdle ==
    /\ files = <<>>
    /\ limit = [given |-> FALSE, n |-> 0]
    /\ pc = "idle"
    /\ idx = 0
    /\ doc_id = 0
    /\ extracted = <<>>
    /\ written = 0
    /\ abortCause = "none"

\* ---------------------------------------------------------------------
\* search (search_parts.py)
\* ---------------------------------------------------------------------
ToLower(c) ==
    CASE c = "A" -> "a" [] c = "B" -> "b" [] c = "C" -> "c"
      [] c = "D" -> "d" [] c = "E" -> "e" [] OTHER -> c

\* column LIKE '%term%': term occurs in the column, ASCII case folded
LikeContains(text, term) ==
    \E i \in 0..(Len(text) - Len(term)) :
        \A k \in 1..Len(term) : ToLower(text[i + k]) = ToLower(term[k])

IsAlnum(c) == c \in UpperDigit \cup Lower

\* the tokens the porter/unicode61 tokenizer makes of a text: the maximal
\* runs of letters and digits, case folded (the Porter step rewrites
\* suffixes of English words; the texts of the model have none)
FtsTokens(text) ==
    {[k \in 1..(j - i) |-> ToLower(text[i + k])] :
        <<i, j>> \in {sp \in (0..Len(text)) \X (0..Len(text)) :
            /\ sp[1] < sp[2]
            /\ \A k \in (sp[1] + 1)..sp[2] : IsAlnum(text[k])
            /\ sp[1] = 0 \/ ~IsAlnum(text[sp[1]])
            /\ sp[2] = Len(text) \/ ~IsAlnum(text[sp[2] + 1])}}

\* an FTS5 query that is one bare word; the empty string is a syntax error
\* ('fts5: syntax error near ""'), and so is any character that is not
\* part of a bare word
FtsQueryValid(term) == term # <<>> /\ \A k \in 1..Len(term) : IsAlnum(term[k])

\* rows of parts_candidates the first SELECT can return
StructuredMatches(docs, cands, term) ==
    {i \in 1..Len(cands) :
        /\ cands[i].doc_id \in DocIdsOf(docs)
        /\ \/ LikeContains(cands[i].part_number, term)
           \/ LikeContains(cands[i].description, term)}

\* rows of raw_lines the second SELECT can return: the rowids the index
\* holds under the query token, read back from the content table
FtsMatches(docs, lines, fts, term) ==
    {i \in 1..Len(lines) :
        /\ lines[i].line_id \in fts
        /\ lines[i].doc_id \in DocIdsOf(docs)
        /\ [k \in 1..Len(term) |-> ToLower(term[k])] \in FtsTokens(lines[i].text)}

Min(a, b) == IF a <= b THEN a ELSE b

\* LIMIT n without ORDER BY: any n of the matching rows
Limited(S, lim) == {R \in SUBSET S : Cardinality(R) = Min(lim, Cardinality(S))}

\* the outcomes of search(term, limit): the second statement raises
\* sqlite3.OperationalError when the query is not valid FTS5 syntax, unless
\* LIMIT 0 ends the statement before the index is consulted
SearchOutcomes(docs, cands, lines, fts, term, lim) ==
    IF lim # 0 /\ ~FtsQueryValid(term)
    THEN {[raised |-> TRUE, results |-> {}, fts_results |-> {}]}
    ELSE {[raised |-> FALSE, results |-> r, fts_results |-> f] :
             r \in Limited(StructuredMatches(docs, cands, term), lim),
             f \in Limited(FtsMatches(docs, lines, fts, term), lim)}

\* ---------------------------------------------------------------------
\* Store-level specification: the helpers called in any order on the
\* connection init_db returned, and search on the same file
\* ---------------------------------------------------------------------
SourceKeys == {"k1", "k2"}
Metadata == {[url |-> "u1", filename |-> "f1.pdf"], [url |-> "u2", filename |-> "f2.pdf"]}

Line1 == <<"A", "B", "C", "D", SP, "E", "1", "E", "1">>
Line2 == <<"E", "1", "E", "1">>
StoreLines == {Line1, Line2}
\* one line with two matches, and one line twice (the same pair twice in a
\* batch) followed by another line
RawBatches == {<<Line1>>, <<Line2, Line2>>}
CandidateBatches == {<<Line1>>, <<Line2, Line2, Line1>>}
\* the store-level specification writes the first page of each document
StorePages == {1}
Terms == {<<>>, <<"e", "1", "e", "1">>}
Limits == {0, 1, MaxRows}

NoRet ==
    [op |-> "none", key |-> NULL, meta |-> NULL, value |-> 0, term |-> <<>>,
     limit |-> 0, raised |-> FALSE, results |-> {}, fts_results |-> {},
     batch |-> <<>>]

InitStore ==
    /\ init_db
    /\ ret = NoRet
    /\ dLines = <<>>
    /\ dOut = NoCall
    /\ PipelineIdle

upsert_source ==
    \E key \in SourceKeys, m \in Metadata :
        LET r == UpsertSource(source_documents, last_insert_rowid, key,
                              m.url, m.filename, NULL, NULL)
        IN  /\ source_documents' = r.docs
            /\ last_insert_rowid' = r.last
            /\ ret' = [NoRet EXCEPT !.op = "upsert_source", !.key = key,
                                    !.meta = m, !.value = r.result]
            /\ UNCHANGED <<raw_lines, raw_lines_fts, parts_candidates,
                           firstInserted, detectVars, pipeVars>>

\* the doc_id handed in belongs to a stored document (foreign key)
insert_raw_lines ==
    \E d \in DocIdsOf(source_documents), p \in StorePages, b \in RawBatches :
        /\ Len(raw_lines) + Len(b) <= MaxRows
        /\ LET r == InsertRawLines(raw_lines, last_insert_rowid, d, p, b)
           IN  /\ raw_lines' = r.rows
               /\ last_insert_rowid' = r.last
        /\ ret' = [NoRet EXCEPT !.op = "insert_raw_lines"]
        /\ UNCHANGED <<source_documents, raw_lines_fts, parts_candidates,
                       firstInserted, detectVars, pipeVars>>

insert_candidates ==
    \E d \in DocIdsOf(source_documents), p \in StorePages, b \in CandidateBatches :
        LET cs == detect_part_candidates(d, p, b)
            r == InsertCandidates(parts_candidates, last_insert_rowid, cs)
        IN  /\ parts_candidates' = r.rows
            /\ last_insert_rowid' = r.last
            /\ firstInserted' = FirstInserted(firstInserted, cs)
            /\ ret' = [NoRet EXCEPT !.op = "insert_candidates", !.batch = cs]
            /\ UNCHANGED <<source_documents, raw_lines, raw_lines_fts,
                           detectVars, pipeVars>>

search ==
    \E term \in Terms, lim \in Limits :
        \E o \in SearchOutcomes(source_documents, parts_candidates, raw_lines,
                                raw_lines_fts, term, lim) :
            /\ ret' = [NoRet EXCEPT !.op = "search", !.term = term,
                                    !.limit = lim, !.raised = o.raised,
                                    !.results = o.results,
                                    !.fts_results = o.fts_results]
            /\ UNCHANGED <<storeVars, detectVars, pipeVars>>

Next == upsert_source \/ insert_raw_lines \/ insert_candidates \/ search

Spec == InitStore /\ [][Next]_vars

\* ---------------------------------------------------------------------
\* run_pipeline
\* ---------------------------------------------------------------------
InitPipeline ==
    /\ init_db
    /\ ret = NoRet
    /\ dLines = <<>>
    /\ dOut = NoCall
    /\ files \in [1..Len(PDF_URLS) -> FileStates]
    /\ limit \in LimitValues
    /\ pc = "init_db"
    /\ idx = 0
    /\ doc_id = 0
    /\ extracted = <<>>
    /\ written = 0
    /\ abortCause = "none"

\* conn = init_db(DB_PATH); download_pdfs() has left `files`
InitDb ==
    /\ pc = "init_db"
    /\ pc' = "loop"
    /\ idx' = 1
    /\ UNCHANGED <<files, limit, doc_id, extracted, written, abortCause,
                   storeVars, ret, detectVars>>

\* "if limit and idx > limit": None and 0 are both false
LimitReached == limit.given /\ limit.n # 0 /\ idx > limit.n

BreakAtLimit ==
    /\ pc = "loop"
    /\ idx <= Len(PDF_URLS)
    /\ LimitReached
    /\ pc' = "close"
    /\ UNCHANGED <<files, limit, idx, doc_id, extracted, written, abortCause,
                   storeVars, ret, detectVars>>

SkipMissing ==
    /\ pc = "loop"
    /\ idx <= Len(PDF_URLS)
    /\ ~LimitReached
    /\ files[idx].status = "missing"
    /\ idx' = idx + 1
    /\ UNCHANGED <<files, limit, pc, doc_id, extracted, written, abortCause,
                   storeVars, ret, detectVars>>

\* doc_id = upsert_source(...); pages = extract_pdf_text(pdf_path)
RegisterAndExtract ==
    /\ pc = "loop"
    /\ idx <= Len(PDF_URLS)
    /\ ~LimitReached
    /\ files[idx].status # "missing"
    /\ LET r == UpsertSource(source_documents, last_insert_rowid,
                             PDF_URLS[idx].source_key, PDF_URLS[idx].url,
                             FileName(PDF_URLS[idx].source_key), NULL, NULL)
       IN  /\ source_documents' = r.docs
           /\ last_insert_rowid' = r.last
           /\ doc_id' = r.result
    /\ extracted' = extract_pdf_text(files[idx])
    /\ written' = 0
    /\ pc' = "pages"
    /\ UNCHANGED <<files, limit, idx, abortCause, raw_lines, raw_lines_fts,
                   parts_candidates, firstInserted, ret, detectVars>>

\* one turn of "for page_num, lines in pages.items()"
WritePage ==
    /\ pc = "pages"
    /\ written < Len(extracted)
    /\ LET e == extracted[written + 1]
           r == InsertRawLines(raw_lines, last_insert_rowid, doc_id,
                               e.page_num, e.lines)
           cs == detect_part_candidates(doc_id, e.page_num, e.lines)
           c == InsertCandidates(parts_candidates, r.last, cs)
       IN  /\ raw_lines' = r.rows
           /\ IF cs # <<>>
              THEN /\ parts_candidates' = c.rows
                   /\ last_insert_rowid' = c.last
                   /\ firstInserted' = FirstInserted(firstInserted, cs)
              ELSE /\ last_insert_rowid' = r.last
                   /\ UNCHANGED <<parts_candidates, firstInserted>>
    /\ written' = written + 1
    /\ UNCHANGED <<files, limit, pc, idx, doc_id, extracted, abortCause,
                   source_documents, raw_lines_fts, ret, detectVars>>

NextDocument ==
    /\ pc = "pages"
    /\ written = Len(extracted)
    /\ idx' = idx + 1
    /\ pc' = "loop"
    /\ UNCHANGED <<files, limit, doc_id, extracted, written, abortCause,
                   storeVars, ret, detectVars>>

\* conn.close() after the loop ended or broke
Close ==
    /\ \/ pc = "close"
       \/ pc = "loop" /\ idx > Len(PDF_URLS)
    /\ pc' = "done"
    /\ UNCHANGED <<files, limit, idx, doc_id, extracted, written, abortCause,
                   storeVars, ret, detectVars>>

NextPipeline ==
    \/ InitDb
    \/ BreakAtLimit
    \/ SkipMissing
    \/ RegisterAndExtract
    \/ WritePage
    \/ NextDocument
    \/ Close

SpecPipeline == InitPipeline /\ [][NextPipeline]_vars

\* ---------------------------------------------------------------------
\* run_pipeline with failing store calls: no call of the function is
\* inside a try block, so an exception of sqlite3 leaves run_pipeline
\* ---------------------------------------------------------------------
\* init_db raises (the schema cannot be created)
InitDbFails ==
    /\ pc = "init_db"
    /\ pc' = "aborted"
    /\ abortCause' = "init_db"
    /\ UNCHANGED <<files, limit, idx, doc_id, extracted, written, storeVars,
                   ret, detectVars>>

\* upsert_source raises for the current document
UpsertFails ==
    /\ pc = "loop"
    /\ idx <= Len(PDF_URLS)
    /\ ~LimitReached
    /\ files[idx].status # "missing"
    /\ pc' = "aborted"
    /\ abortCause' = "upsert_source"
    /\ UNCHANGED <<files, limit, idx, doc_id, extracted, written, storeVars,
                   ret, detectVars>>

\* insert_raw_lines raises for a page: nothing of the page is committed
InsertRawLinesFails ==
    /\ pc = "pages"
    /\ written < Len(extracted)
    /\ extracted[written + 1].lines # <<>>
    /\ pc' = "aborted"
    /\ abortCause' = "insert_raw_lines"
    /\ UNCHANGED <<files, limit, idx, doc_id, extracted, written, storeVars,
                   ret, detectVars>>

\* insert_candidates raises for a page: its raw lines are committed, its
\* candidates are not
InsertCandidatesFails ==
    /\ pc = "pages"
    /\ written < Len(extracted)
    /\ LET e == extracted[written + 1]
           r == InsertRawLines(raw_lines, last_insert_rowid, doc_id,
                               e.page_num, e.lines)
       IN  /\ detect_part_candidates(doc_id, e.page_num, e.lines) # <<>>
           /\ raw_lines' = r.rows
           /\ last_insert_rowid' = r.last
    /\ pc' = "aborted"
    /\ abortCause' = "insert_candidates"
    /\ UNCHANGED <<files, limit, idx, doc_id, extracted, written,
                   source_documents, raw_lines_fts, parts_candidates,
                   firstInserted, ret, detectVars>>

NextFault ==
    \/ NextPipeline
    \/ InitDbFails
    \/ UpsertFails
    \/ InsertRawLinesFails
    \/ InsertCandidatesFails

SpecFault == InitPipeline /\ [][NextFault]_vars

\* ---------------------------------------------------------------------
\* Detector specification: detect_part_candidates on bounded inputs
\* ---------------------------------------------------------------------
Segments ==
    {<<"A", "B", "C", "D">>, <<"E", "1">>, <<"-">>, <<"a">>, <<SP>>, <<NL>>}

\* every text made of at most MaxSegs segments
Texts == {Flatten(f) : f \in UNION {[1..n -> Segments] : n \in 0..MaxSegs}}

\* the line lists the detector is called with: the text cut at newlines
\* (lines may be empty, untrimmed, or hold several matches)
DetectInputs == {SplitNL(t, <<>>) : t \in Texts}


InitDetect ==
    /\ dLines \in DetectInputs
    /\ dOut = NoCall
    /\ init_db
    /\ ret = NoRet
    /\ PipelineIdle

Detect ==
    /\ ~dOut.called
    /\ \E d \in DocIds, p \in PageNums :
           dOut' = [called |-> TRUE, doc_id |-> d, page |-> p,
                    candidates |-> detect_part_candidates(d, p, dLines)]
    /\ UNCHANGED <<dLines, storeVars, ret, pipeVars>>

NextDetect == Detect

SpecDetect == InitDetect /\ [][NextDetect]_vars

\* ---------------------------------------------------------------------
\* C8
\* ---------------------------------------------------------------------
\* the substrings line[i+1..j] the claim speaks of: only class characters,
\* at least MinLen long, a word boundary at both ends
IsPartSpan(line, i, j) ==
    /\ j - i >= MinLen
    /\ \A k \in (i + 1)..j : InClass(line[k])
    /\ WordBoundary(line, i)
    /\ WordBoundary(line, j)

PartSpans(line) ==
    {sp \in (0..Len(line)) \X (0..Len(line)) : IsPartSpan(line, sp[1], sp[2])}

\* those contained in no other one
MaximalPartSpans(line) ==
    {sp \in PartSpans(line) :
        \A other \in PartSpans(line) :
            (other[1] <= sp[1] /\ sp[2] <= other[2]) => other = sp}

RECURSIVE SpansLeftToRight(_)
SpansLeftToRight(S) ==
    IF S = {} THEN <<>>
    ELSE LET first == CHOOSE sp \in S : \A o \in S : sp[1] <= o[1]
         IN  <<first>> \o SpansLeftToRight(S \ {first})

RECURSIVE ExpectedOfSpans(_, _, _, _)
ExpectedOfSpans(d, p, line, spans) ==
    IF spans = <<>> THEN <<>>
    ELSE <<[doc_id |-> d, page |-> p,
            part_number |-> Slice(line, Head(spans)[1], Head(spans)[2]),
            description |-> line, category |-> NULL, confidence |-> "0.8",
            raw_text |-> line]>>
         \o ExpectedOfSpans(d, p, line, Tail(spans))

RECURSIVE ExpectedCandidates(_, _, _)
ExpectedCandidates(d, p, lines) ==
    IF lines = <<>> THEN <<>>
    ELSE ExpectedOfSpans(d, p, Head(lines),
                         SpansLeftToRight(MaximalPartSpans(Head(lines))))
         \o ExpectedCandidates(d, p, Tail(lines))

\* C8: detect_part_candidates returns, line by line and left to right, one
\* tuple (doc_id, page, substring, line, None, 0.8, line) for every maximal
\* substring that consists of [A-Z0-9-], is at least 4 long and lies on word
\* boundaries, and nothing else; a line without one contributes nothing.
C8_DetectMaximalSpans ==
    dOut.called =>
        dOut.candidates = ExpectedCandidates(dOut.doc_id, dOut.page, dLines)

\* a call on several lines, one of them empty, one with two matches, and
\* one whose run of class characters is longer than the match taken from it
C8_Witness ==
    /\ dOut.called
    /\ Len(dLines) >= 2
    /\ \E i \in 1..Len(dLines) : dLines[i] = <<>>
    /\ \E i \in 1..Len(dLines) : Len(FindAll(dLines[i])) >= 1
    /\ Len(dOut.candidates) >= 1
    /\ \E i \in 1..Len(dLines) :
           \E sp \in MaximalPartSpans(dLines[i]) :
               sp[2] < Len(dLines[i]) /\ dLines[i][sp[2] + 1] = "-"

\* ---------------------------------------------------------------------
\* C1
\* ---------------------------------------------------------------------
\* the stored lines that hold the query word as a token
LinesWithToken(term) ==
    {i \in 1..Len(raw_lines) :
        [k \in 1..Len(term) |-> ToLower(term[k])] \in FtsTokens(raw_lines[i].text)}

\* C1: after any inserts into raw_lines, search(term) returns in its
\* full-text result set every stored line that holds term as a token, up
\* to limit, with no index maintenance in between.
C1_InsertedLinesSearchable ==
    (ret.op = "search" /\ FtsQueryValid(ret.term)) =>
        /\ ~ret.raised
        /\ ret.fts_results \subseteq LinesWithToken(ret.term)
        /\ Cardinality(ret.fts_results)
               = Min(ret.limit, Cardinality(LinesWithToken(ret.term)))

\* ---------------------------------------------------------------------
\* C2
\* ---------------------------------------------------------------------
PairsOf(rows) ==
    {<<rows[i].part_number, rows[i].description>> : i \in 1..Len(rows)}

NoDuplicatePair(rows) ==
    \A i, j \in 1..Len(rows) : SamePair(rows[i], rows[j]) => i = j

C3_UpsertReturnsDocId ==
    ret.op = "upsert_source" =>
        /\ Cardinality({i \in 1..Len(source_documents) :
               source_documents[i].source_key = ret.key}) = 1
        /\ \E i \in 1..Len(source_documents) :
               /\ source_documents[i].source_key = ret.key
               /\ source_documents[i].url = ret.meta.url
               /\ source_documents[i].filename = ret.meta.filename
               /\ source_documents[i].doc_id = ret.value

\* ---------------------------------------------------------------------
\* C4
\* ---------------------------------------------------------------------
\* C4: search with an empty term or with limit 0 returns two empty result
\* sets and raises nothing.
C4_EmptyTermOrZeroLimit ==
    (ret.op = "search" /\ (ret.term = <<>> \/ ret.limit = 0)) =>
        /\ ~ret.raised
        /\ ret.results = {}
        /\ ret.fts_results = {}

\* ---------------------------------------------------------------------
\* C5
\* ---------------------------------------------------------------------
\* the text between two consecutive newlines (or the ends of the text)
NewlinesOf(text) == {k \in 1..Len(text) : text[k] = NL} \cup {0, Len(text) + 1}

\* the piece that starts after cut a, without its surrounding blanks
TrimmedPiece(text, a) ==
    LET b == CHOOSE c \in NewlinesOf(text) :
                 c > a /\ \A o \in NewlinesOf(text) : o > a => c <= o
        inked == {k \in (a + 1)..(b - 1) : text[k] # SP}
    IN  IF inked = {} THEN <<>>
        ELSE SubSeq(text,
                    CHOOSE k \in inked : \A o \in inked : k <= o,
                    CHOOSE k \in inked : \A o \in inked : o <= k)

RECURSIVE TrimmedLinesFrom(_, _)
TrimmedLinesFrom(text, cuts) ==
    IF cuts = {} THEN <<>>
    ELSE LET a == CHOOSE c \in cuts : \A o \in cuts : c <= o
             t == TrimmedPiece(text, a)
         IN  (IF t = <<>> THEN <<>> ELSE <<t>>)
             \o TrimmedLinesFrom(text, cuts \ {a})

\* the non-empty trimmed lines of a page text, top to bottom
TrimmedLines(text) ==
    TrimmedLinesFrom(text, NewlinesOf(text) \ {Len(text) + 1})

\* page p of the file yielded text: extract_text() was called on it and
\* returned text (the pages after one that raised are never asked)
YieldedText(file, p) ==
    /\ file.pages[p].kind = "text"
    /\ \A q \in 1..(p - 1) : file.pages[q].kind # "raise"

RECURSIVE RowsOfLines(_, _)
RowsOfLines(p, lines) ==
    IF lines = <<>> THEN <<>>
    ELSE <<[page |-> p, text |-> Head(lines)]>> \o RowsOfLines(p, Tail(lines))

RECURSIVE ExpectedRowsFrom(_, _)
ExpectedRowsFrom(file, p) ==
    IF p > Len(file.pages) THEN <<>>
    ELSE (IF YieldedText(file, p)
          THEN RowsOfLines(p, TrimmedLines(file.pages[p].text))
          ELSE <<>>)
         \o ExpectedRowsFrom(file, p + 1)

RECURSIVE RowsOfDoc(_, _)
RowsOfDoc(rows, d) ==
    IF rows = <<>> THEN <<>>
    ELSE (IF Head(rows).doc_id = d
          THEN <<[page |-> Head(rows).page, text |-> Head(rows).text]>>
          ELSE <<>>)
         \o RowsOfDoc(Tail(rows), d)

\* the document of PDF_URLS[i] was opened by this run
Opened(i) ==
    /\ files[i].status = "ok"
    /\ \E k \in 1..Len(source_documents) :
           source_documents[k].source_key = PDF_URLS[i].source_key

DocIdOfKey(key) ==
    (CHOOSE r \in {source_documents[k] : k \in 1..Len(source_documents)} :
         r.source_key = key).doc_id

\* C5: after the run, for every document that was opened, the rows of
\* raw_lines with its doc_id, by ascending line_id, are exactly the
\* non-empty trimmed lines of the pages that yielded text, page by page
\* and top to bottom, each with its 1-based page number.
C5_EveryLineOnceInOrder ==
    pc = "done" =>
        /\ \A k \in 1..Len(raw_lines) : raw_lines[k].line_id = k
        /\ \A i \in 1..Len(PDF_URLS) :
               Opened(i) =>
                   RowsOfDoc(raw_lines, DocIdOfKey(PDF_URLS[i].source_key))
                       = ExpectedRowsFrom(files[i], 1)

\* a finished run over a file whose first page has no text and whose
\* second page has blank lines and lines with blanks around them
C5_Witness ==
    /\ pc = "done"
    /\ \E i \in 1..Len(PDF_URLS) :
           /\ Opened(i)
           /\ Len(files[i].pages) >= 2
           /\ files[i].pages[1].kind = "none"
           /\ files[i].pages[2] = [kind |-> "text", text |-> PageText1]
           /\ Len(RowsOfDoc(raw_lines, DocIdOfKey(PDF_URLS[i].source_key))) = 2

\* ---------------------------------------------------------------------
\* C6
\* ---------------------------------------------------------------------
\* C6: a store error while writing one document's rows does not end the
\* run; only a failure of init_db does.
C6_OnlyInitDbAbortsRun ==
    pc = "aborted" => abortCause = "init_db"

\* ---------------------------------------------------------------------
\* C7
\* ---------------------------------------------------------------------
\* C7: run_pipeline(limit=n), n >= 0, leaves at most n rows in
\* source_documents; without a limit every file that exists is ingested.
C7_AtMostLimitDocuments ==
    pc = "done" =>
        /\ limit.given => Len(source_documents) <= limit.n
        /\ ~limit.given =>
               \A i \in 1..Len(PDF_URLS) :
                   files[i].status # "missing" =>
                       \E k \in 1..Len(source_documents) :
                           source_documents[k].source_key = PDF_URLS[i].source_key

\* ---------------------------------------------------------------------
\* C9
\* ---------------------------------------------------------------------
\* C9: extract_pdf_text leaves out only the pages whose extraction fails
\* or yields no text; every page with text, before or after such a page,
\* is in the mapping under its own page number.
C9_OnlyFailingPageOmitted ==
    (pc = "pages" /\ files[idx].status = "ok") =>
        {extracted[k].page_num : k \in 1..Len(extracted)}
            = {p \in 1..Len(files[idx].pages) : files[idx].pages[p].kind = "text"}

\* ---------------------------------------------------------------------
\* C10
\* ---------------------------------------------------------------------
\* C10: for every (part_number, description) pair ever handed to
\* insert_candidates there is one row, and it carries the doc_id, page,
\* confidence and raw_text of the first tuple handed in with that pair.
C10_FirstInsertionWins ==
    \A f \in firstInserted :
        /\ Cardinality({k \in 1..Len(parts_candidates) :
               SamePair(parts_candidates[k], f)}) = 1
        /\ \E k \in 1..Len(parts_candidates) :
               /\ SamePair(parts_candidates[k], f)
               /\ parts_candidates[k].doc_id = f.doc_id
               /\ parts_candidates[k].page = f.page
               /\ parts_candidates[k].confidence = f.confidence
               /\ parts_candidates[k].raw_text = f.raw_text

\* a finished run in which a document owns raw lines with part-number
\* matches and not one row of parts_candidates
C10_Witness ==
    /\ pc = "done"
    /\ \E d \in DocIdsOf(source_documents) :
           /\ \E k \in 1..Len(raw_lines) :
                  raw_lines[k].doc_id = d /\ FindAll(raw_lines[k].text) # <<>>
           /\ \A k \in 1..Len(parts_candidates) : parts_candidates[k].doc_id # d

====
